---- MODULE Spec2Model ----
(***************************************************************************)
(* The asynchronous write path of the todo backend: envelopes on the SQS   *)
(* queue, the worker's receive loop (worker.py main), the apply of one     *)
(* envelope to the todos table (process_notification) and the rebuild of   *)
(* the 'all_todos' Redis entry (update_all_todos_cache) under the          *)
(* retry_on_error decorator; and the routes of the API (app.py) that accept *)
(* a change and enqueue its envelope (util.py send_notification).          *)
(*                                                                         *)
(* Values.  Python None is NoneS for a string-valued field and NoneId for  *)
(* an integer-valued one; a key that the JSON body does not carry is       *)
(* Absent (strings) or NoneId (ids: data.get() yields None for it).        *)
(* The created_at / updated_at columns are not part of the state: no       *)
(* property below reads them.                                              *)
(***************************************************************************)
EXTENDS Integers, FiniteSets, Sequences, TLC

\* ---------------------------------------------------------------- bounds
\* messages sent to the queue over a run, one outstanding at a time
MaxSent == 2
\* largest todo_id an envelope carries
MaxTodoId == 2
\* failures of the store, the cache and the broker over a run
MaxFaults == 3

\* ------------------------------------------------------ program constants
\* RedrivePolicy maxReceiveCount of the main queue
MaxReceiveCount == 3
\* @retry_on_error(max_retries=3) on update_all_todos_cache
max_retries == 3
\* @retry_on_error(max_retries=3) on invalidate_all_todos_cache
inv_max_retries == 3

\* ----------------------------------------------------------------- values
Absent == "<absent>"
NoneS == "<None>"
NoneId == -1

\* actions an envelope may name; Absent is an envelope without the key
Actions == {"todo_created", "todo_updated", "todo_deleted", "invalid_action", Absent}
KnownActions == {"todo_created", "todo_updated", "todo_deleted"}
Titles == {Absent, "", "t1"}
Statuses == {Absent, "completed"}
TodoIds == 1..MaxTodoId

\* A message body.  json = FALSE is a body json.loads cannot parse.
Body(js, tid, tid2, typ, act, ti, de, st, pr, du) ==
    [json |-> js, todoId |-> tid, todo_id |-> tid2, type |-> typ, action |-> act,
     title |-> ti, description |-> de, status |-> st, priority |-> pr, due_date |-> du]

Malformed == Body(FALSE, NoneId, NoneId, Absent, Absent, Absent, Absent, Absent, Absent, Absent)

\* Envelopes in the naming the API's send_notification produces (todo_id,
\* action): a create with any title and no status, an update with or without
\* a title and a status, and the actions whose branch reads no payload.
Envelopes ==
    { Body(TRUE, NoneId, i, Absent, "todo_created", t, Absent, Absent, Absent, Absent) :
        i \in TodoIds, t \in Titles }
    \cup
    { Body(TRUE, NoneId, i, Absent, "todo_updated", t, Absent, s, Absent, Absent) :
        i \in TodoIds, t \in Titles \ {""}, s \in Statuses }
    \cup
    { Body(TRUE, NoneId, i, Absent, a, Absent, Absent, Absent, Absent, Absent) :
        i \in TodoIds, a \in Actions \ {"todo_created", "todo_updated"} }

Bodies == Envelopes \cup {Malformed}

\* The wider set of bodies process_notification is applied to one at a time.
Descriptions == {Absent, "d1"}
Priorities == {Absent, "high"}
DueDates == {Absent, "2030-01-01"}
\* (todoId, todo_id): the id under either key, under neither, and the id 0
IdPairs ==
    { <<NoneId, i>> : i \in {NoneId, 0} \cup TodoIds }
    \cup { <<i, NoneId>> : i \in {0} \cup TodoIds }
\* (type, action): the action under either key
ActionKeys(a) == { <<Absent, a>>, <<a, Absent>> }

WideEnvelopes ==
    { Body(TRUE, ip[1], ip[2], ak[1], ak[2], t, d, s, p, du) :
        ip \in IdPairs,
        ak \in ActionKeys("todo_created") \cup ActionKeys("todo_updated"),
        t \in Titles, d \in Descriptions, s \in Statuses, p \in Priorities,
        du \in DueDates }
    \cup
    { Body(TRUE, ip[1], ip[2], ak[1], ak[2], Absent, Absent, Absent, Absent, Absent) :
        ip \in IdPairs,
        ak \in ActionKeys("todo_deleted") \cup ActionKeys("invalid_action")
                  \cup {<<Absent, Absent>>} }

WideBodies == WideEnvelopes \cup {Malformed}

VARIABLES
    queue,      \* the main queue: message id -> [body, rc, ins, owed]; rc is the
                \* broker's receive count, ins (history) the number of rows the
                \* message's applies inserted, owed (history) whether its last
                \* apply committed a mutation and then failed in the cache refresh
    sent,       \* number of messages sent so far (the id of the last one)
    acked,      \* ids of the messages the worker deleted from the queue
    dlq,        \* ids of the messages the broker moved to the dead-letter queue
    store,      \* the todos table: id -> row
    nextId,     \* the table's SERIAL sequence
    cache,      \* the 'all_todos' Redis entry
    clock,      \* datetime.utcnow(), in ticks
    pc,         \* where the worker's loop stands
    cur,        \* id of the message in hand, 0 when none
    attempt,    \* retry_on_error's attempt of update_all_todos_cache
    inv_attempt,\* retry_on_error's attempt of invalidate_all_todos_cache
    cache_data, \* update_all_todos_cache's local cache_data
    result,     \* how process_notification ended: "True", "False", "raise"; "" before
    faults,     \* number of failures of the store, the cache and the broker so far
    pre,        \* history: the store, the cache, the clock, the fault count and the
                \* message (body, ins, owed) when the delivery in progress began
    post,       \* history: the store as process_notification left it at its
                \* last commit (or found it), before any cache refresh
    committed,  \* history: this apply committed a store mutation
    cache_refresh, \* history: update_all_todos_cache in this apply: "none" (not
                \* called), "called", "failed" (raised), "done" (returned)
    epoch,      \* the API's int(datetime.utcnow().timestamp()), in seconds
    response,   \* history: the API's last HTTP response and what its route did
    issued,     \* history: the temp_ids the API returned to the clients of creates
    redis_calls,\* history: redis_client.delete and .set calls issued in this apply
    session     \* process_notification's db session: "none", "open", "closed"

\* the variables only the API's routes change
api == <<epoch, response, issued>>
\* the worker's bookkeeping of one apply
apply_hist == <<redis_calls, session>>

vars == <<queue, sent, acked, dlq, store, nextId, cache, clock, pc, cur, attempt,
          inv_attempt, cache_data, result, faults, pre, post, committed, cache_refresh,
          epoch, response, issued, redis_calls, session>>

\* ------------------------------------------------------- pure functions

\* Python truthiness of the values the envelope fields take
TruthyS(x) == x # Absent /\ x # NoneS /\ x # ""
TruthyId(x) == x # NoneId /\ x # 0

\* dict.get(key): None for a missing key
GetS(x) == IF x = Absent THEN NoneS ELSE x
\* dict.get(key, default)
GetDefault(x, d) == IF x = Absent THEN d ELSE x

\* todo_id = data.get('todoId') or data.get('todo_id')
TodoIdOf(data) == IF TruthyId(data.todoId) THEN data.todoId ELSE data.todo_id
\* action = data.get('type') or data.get('action')
ActionOf(data) == IF TruthyS(data.type) THEN data.type ELSE GetS(data.action)

\* mutant of TodoData: status and priority are read without their defaults
TodoData_NoDefaults(data) ==
    [title |-> GetS(data.title),
     description |-> GetS(data.description),
     status |-> GetS(data.status),
     priority |-> GetS(data.priority),
     due_date |-> GetS(data.due_date)]

\* todo_data = {...}
TodoData(data) ==
    [title |-> GetS(data.title),
     description |-> GetS(data.description),
     status |-> GetDefault(data.status, "pending"),
     priority |-> GetDefault(data.priority, "medium"),
     due_date |-> GetS(data.due_date)]

\* due_date = Column(DateTime): the ISO string of the envelope is stored, and
\* read back by db.refresh, as a datetime
DateTimeColumn(x) == IF x = "2030-01-01" THEN "datetime(2030, 1, 1, 0, 0)" ELSE x
\* datetime.isoformat()
isoformat(d) == IF d = "datetime(2030, 1, 1, 0, 0)" THEN "2030-01-01T00:00:00" ELSE d

\* the row Todo(**todo_data), or setattr of every key of todo_data, leaves
\* in the table at the commit
Row(todo_data) == [todo_data EXCEPT !.due_date = DateTimeColumn(@)]

\* todo_to_dict(todo)
todo_to_dict(id, todo) ==
    [id |-> id, title |-> todo.title, description |-> todo.description,
     due_date |-> IF todo.due_date # NoneS THEN isoformat(todo.due_date) ELSE NoneS,
     priority |-> todo.priority, status |-> todo.status]

\* [todo_to_dict(todo) for todo in session.query(Todo).all()]
TodosList(st) == { todo_to_dict(i, st[i]) : i \in DOMAIN st }

NoCache == [present |-> FALSE, todos |-> {}, cached_at |-> 0]
NoData == [todos |-> {}, cached_at |-> 0]
\* no request answered yet
NoResponse == [route |-> "", status |-> 0, todo_id |-> NoneId, kind |-> "",
               title |-> Absent, enqueued |-> FALSE, wrote |-> FALSE,
               source |-> "", todos |-> {}]
NoCalls == [delete |-> 0, set |-> 0]
NoPre == [store |-> <<>>, cache |-> NoCache, clock |-> 0, faults |-> 0,
          body |-> Malformed, ins |-> 0, owed |-> FALSE]

\* --------------------------------------------------- process_notification

\* where the store fails during process_notification: at the lookup
\* (query.first()), at db.commit(), at db.refresh(todo), or nowhere
StoreFaults == {"none", "lookup", "commit", "refresh"}

Out(kind, st, nid, ins, com) ==
    [kind |-> kind, store |-> st, nextId |-> nid, ins |-> ins, com |-> com]

\* title is nullable=False: a commit that would store None in it raises
NotNullViolated(todo_data) == todo_data.title = NoneS

\* mutant of CreatedBranch: a commit that raises leaves the row in the table
CreatedBranch_CommitKeepsRow(data, st, nid, fault) ==
    LET todo_id == TodoIdOf(data)
        todo_data == TodoData(data)
        added == (nid :> Row(todo_data)) @@ st
    IN  IF todo_id = NoneId THEN Out("raise", st, nid, FALSE, FALSE)
        ELSE IF fault = "lookup" THEN Out("raise", st, nid, FALSE, FALSE)
        ELSE IF todo_id \in DOMAIN st THEN Out("True", st, nid, FALSE, FALSE)
        ELSE IF ~TruthyS(todo_data.title) THEN Out("False", st, nid, FALSE, FALSE)
        ELSE IF fault = "commit" THEN Out("raise", added, nid + 1, FALSE, FALSE)
        ELSE IF fault = "refresh" THEN Out("raise", added, nid + 1, TRUE, TRUE)
        ELSE Out("refresh", added, nid + 1, TRUE, TRUE)

\* if action == 'todo_created': ...
CreatedBranch(data, st, nid, fault) ==
    LET todo_id == TodoIdOf(data)
        todo_data == TodoData(data)
        added == (nid :> Row(todo_data)) @@ st
    IN  IF todo_id = NoneId THEN Out("raise", st, nid, FALSE, FALSE)
        ELSE IF fault = "lookup" THEN Out("raise", st, nid, FALSE, FALSE)
        ELSE IF todo_id \in DOMAIN st THEN Out("True", st, nid, FALSE, FALSE)
        ELSE IF ~TruthyS(todo_data.title) THEN Out("False", st, nid, FALSE, FALSE)
        ELSE IF fault = "commit" THEN Out("raise", st, nid, FALSE, FALSE)
        ELSE IF fault = "refresh" THEN Out("raise", added, nid + 1, TRUE, TRUE)
        ELSE Out("refresh", added, nid + 1, TRUE, TRUE)

\* elif action == 'todo_updated': ...
UpdatedBranch(data, st, nid, fault) ==
    LET todo_id == TodoIdOf(data)
        todo_data == TodoData(data)
    IN  IF todo_id = NoneId THEN Out("raise", st, nid, FALSE, FALSE)
        ELSE IF fault = "lookup" THEN Out("raise", st, nid, FALSE, FALSE)
        ELSE IF todo_id \notin DOMAIN st THEN Out("False", st, nid, FALSE, FALSE)
        ELSE IF NotNullViolated(todo_data) \/ fault = "commit"
             THEN Out("raise", st, nid, FALSE, FALSE)
        ELSE IF fault = "refresh"
             THEN Out("raise", [st EXCEPT ![todo_id] = Row(todo_data)], nid, FALSE, TRUE)
        ELSE Out("refresh", [st EXCEPT ![todo_id] = Row(todo_data)], nid, FALSE, TRUE)

\* mutant of DeletedBranch: the row found is not deleted before the refresh
DeletedBranch_KeepsRow(data, st, nid, fault) ==
    LET todo_id == TodoIdOf(data)
    IN  IF todo_id = NoneId THEN Out("raise", st, nid, FALSE, FALSE)
        ELSE IF fault = "lookup" THEN Out("raise", st, nid, FALSE, FALSE)
        ELSE Out("refresh", st, nid, FALSE, FALSE)

\* mutant of DeletedBranch: a delete of a row that does not exist falls through
\* to return False, as the update of one does
DeletedBranch_AbsentFalse(data, st, nid, fault) ==
    LET todo_id == TodoIdOf(data)
    IN  IF todo_id = NoneId THEN Out("raise", st, nid, FALSE, FALSE)
        ELSE IF fault = "lookup" THEN Out("raise", st, nid, FALSE, FALSE)
        ELSE IF todo_id \notin DOMAIN st THEN Out("False", st, nid, FALSE, FALSE)
        ELSE IF fault = "commit" THEN Out("raise", st, nid, FALSE, FALSE)
        ELSE Out("refresh", [i \in DOMAIN st \ {todo_id} |-> st[i]], nid, FALSE, TRUE)

\* elif action == 'todo_deleted': ...
DeletedBranch(data, st, nid, fault) ==
    LET todo_id == TodoIdOf(data)
    IN  IF todo_id = NoneId THEN Out("raise", st, nid, FALSE, FALSE)
        ELSE IF fault = "lookup" THEN Out("raise", st, nid, FALSE, FALSE)
        ELSE IF todo_id \notin DOMAIN st THEN Out("refresh", st, nid, FALSE, FALSE)
        ELSE IF fault = "commit" THEN Out("raise", st, nid, FALSE, FALSE)
        ELSE Out("refresh", [i \in DOMAIN st \ {todo_id} |-> st[i]], nid, FALSE, TRUE)

\* mutant of NoActionTaken: the fall-through returns True
NoActionTaken_True(data, st, nid, fault) == Out("True", st, nid, FALSE, FALSE)

\* return False  # Return False if no action was taken
NoActionTaken(data, st, nid, fault) == Out("False", st, nid, FALSE, FALSE)

\* mutant of process_notification: a body that does not parse is taken for an
\* envelope without an action
process_notification_NoDecode(data, st, nid, fault) ==
    LET action == ActionOf(data)
    IN  IF action = "todo_created" THEN CreatedBranch(data, st, nid, fault)
        ELSE IF action = "todo_updated" THEN UpdatedBranch(data, st, nid, fault)
        ELSE IF action = "todo_deleted" THEN DeletedBranch(data, st, nid, fault)
        ELSE NoActionTaken(data, st, nid, fault)

\* process_notification up to its first call of update_all_todos_cache:
\* "refresh" means that call is next, the other kinds are how the function ends
process_notification(data, st, nid, fault) ==
    IF ~data.json THEN Out("raise", st, nid, FALSE, FALSE)
    ELSE LET action == ActionOf(data)
         IN  IF action = "todo_created" THEN CreatedBranch(data, st, nid, fault)
             ELSE IF action = "todo_updated" THEN UpdatedBranch(data, st, nid, fault)
             ELSE IF action = "todo_deleted" THEN DeletedBranch(data, st, nid, fault)
             ELSE NoActionTaken(data, st, nid, fault)

\* ------------------------------------------------------------------- Init
Init ==
    /\ queue = <<>>
    /\ sent = 0
    /\ acked = {}
    /\ dlq = {}
    /\ store = <<>>
    /\ nextId = 1
    /\ cache = NoCache
    /\ clock = 0
    /\ pc = "receive"
    /\ cur = 0
    /\ attempt = 0
    /\ inv_attempt = 0
    /\ cache_data = NoData
    /\ result = ""
    /\ faults = 0
    /\ pre = NoPre
    /\ post = <<>>
    /\ committed = FALSE
    /\ cache_refresh = "none"
    /\ epoch = 1
    /\ response = NoResponse
    /\ issued = {}
    /\ redis_calls = NoCalls
    /\ session = "none"

\* a call of the store, the cache or the broker fails
Fault == faults < MaxFaults /\ faults' = faults + 1

\* ---------------------------------------------------------------- broker

Msg(b) == [body |-> b, rc |-> 0, ins |-> 0, owed |-> FALSE]

Without(q, m) == [i \in DOMAIN q \ {m} |-> q[i]]

\* sqs.send_message: a producer puts a body on the main queue
Enqueue(b) ==
    /\ UNCHANGED <<api, apply_hist>>
    /\ sent < MaxSent
    /\ DOMAIN queue = {}
    /\ sent' = sent + 1
    /\ queue' = (sent + 1 :> Msg(b)) @@ queue
    /\ UNCHANGED <<acked, dlq, store, nextId, cache, clock, pc, cur, attempt, inv_attempt,
                   cache_data, result, faults, pre, post, committed, cache_refresh>>

\* RedrivePolicy: a message already received maxReceiveCount times, and not
\* deleted, is moved to the dead-letter queue instead of being delivered again
Redrive(m) ==
    /\ UNCHANGED <<api, apply_hist>>
    /\ m \in DOMAIN queue
    /\ m # cur
    /\ queue[m].rc >= MaxReceiveCount
    /\ queue' = Without(queue, m)
    /\ dlq' = dlq \cup {m}
    /\ UNCHANGED <<sent, acked, store, nextId, cache, clock, pc, cur, attempt, inv_attempt,
                   cache_data, result, faults, pre, post, committed, cache_refresh>>

\* ------------------------------------------------------------ worker main

\* response = sqs.receive_message(...) returns message m
ReceiveMessage(m) ==
    /\ UNCHANGED <<api, apply_hist>>
    /\ pc = "receive"
    /\ m \in DOMAIN queue
    /\ queue[m].rc < MaxReceiveCount
    /\ queue' = [queue EXCEPT ![m].rc = @ + 1]
    /\ cur' = m
    /\ pc' = "process"
    /\ pre' = [store |-> store, cache |-> cache, clock |-> clock, faults |-> faults,
               body |-> queue[m].body, ins |-> queue[m].ins, owed |-> queue[m].owed]
    /\ post' = store
    /\ UNCHANGED <<sent, acked, dlq, store, nextId, cache, clock, attempt, inv_attempt,
                   cache_data, result, faults, committed, cache_refresh>>

\* sqs.receive_message raises: except Exception ... time.sleep(5)
ReceiveFails ==
    /\ UNCHANGED <<api, apply_hist>>
    /\ pc = "receive"
    /\ Fault
    /\ pc' = "backoff"
    /\ UNCHANGED <<queue, sent, acked, dlq, store, nextId, cache, clock, cur, attempt,
                   inv_attempt, cache_data, result, pre, post, committed, cache_refresh>>

\* the sleep ends and the while loop goes round
Backoff ==
    /\ UNCHANGED <<api, apply_hist>>
    /\ pc = "backoff"
    /\ pc' = "receive"
    /\ UNCHANGED <<queue, sent, acked, dlq, store, nextId, cache, clock, cur, attempt,
                   inv_attempt, cache_data, result, faults, pre, post, committed,
                   cache_refresh>>

\* process_notification(message), from its entry to its return, its raise or
\* its call of update_all_todos_cache
ProcessNotification ==
    /\ UNCHANGED api
    /\ pc = "process"
    /\ \E fault \in StoreFaults :
         LET out == process_notification(queue[cur].body, store, nextId, fault)
             clean == process_notification(queue[cur].body, store, nextId, "none")
         IN  /\ IF fault = "none" THEN UNCHANGED faults ELSE Fault /\ out # clean
             /\ store' = out.store
             /\ post' = out.store
             /\ nextId' = out.nextId
             /\ committed' = out.com
             /\ queue' = [i \in DOMAIN queue |->
                             [queue[i] EXCEPT
                                !.ins = IF i = cur /\ out.ins THEN @ + 1 ELSE @,
                                !.owed = IF out.com THEN FALSE ELSE @]]
             /\ IF out.kind = "refresh"
                THEN pc' = "invalidate" /\ result' = "" /\ cache_refresh' = "called"
                ELSE pc' = "returned" /\ result' = out.kind /\ UNCHANGED cache_refresh
             /\ session' = IF ~queue[cur].body.json THEN "none"
                           ELSE IF out.kind = "refresh" THEN "open" ELSE "closed"
    /\ redis_calls' = NoCalls
    /\ attempt' = 0
    /\ inv_attempt' = 0
    /\ UNCHANGED <<sent, acked, dlq, cache, clock, cur, cache_data, pre>>

\* ------------------------------------------------ update_all_todos_cache

\* mutant of AttemptRaised: the wrapper re-raises the first failure
AttemptRaised_NoRetry ==
    /\ inv_attempt' = 0
    /\ cache_data' = NoData
    /\ pc' = "returned"
    /\ result' = "raise"
    /\ cache_refresh' = "failed"
    /\ attempt' = attempt
    /\ session' = "closed"
    /\ queue' = [queue EXCEPT ![cur].owed = committed]

\* retry_on_error's wrapper of update_all_todos_cache after the attempt raised:
\* the last attempt re-raises (and process_notification raises), an earlier
\* one sleeps and calls update_all_todos_cache again
AttemptRaised ==
    /\ inv_attempt' = 0
    /\ cache_data' = NoData
    /\ IF attempt = max_retries - 1
       THEN /\ pc' = "returned"
            /\ result' = "raise"
            /\ cache_refresh' = "failed"
            /\ attempt' = attempt
            /\ session' = "closed"
            /\ queue' = [queue EXCEPT ![cur].owed = committed]
       ELSE /\ pc' = "invalidate"
            /\ attempt' = attempt + 1
            /\ UNCHANGED <<result, queue, cache_refresh, session>>

\* invalidate_all_todos_cache: redis_client.delete('all_todos') succeeds
InvalidateOk ==
    /\ UNCHANGED <<api, session>>
    /\ pc = "invalidate"
    /\ redis_calls' = [redis_calls EXCEPT !.delete = @ + 1]
    /\ cache' = NoCache
    /\ pc' = "query"
    /\ inv_attempt' = 0
    /\ UNCHANGED <<queue, sent, acked, dlq, store, nextId, clock, cur, attempt,
                   cache_data, result, faults, pre, post, committed, cache_refresh>>

\* redis_client.delete raises: retry_on_error's wrapper of
\* invalidate_all_todos_cache retries; its last attempt raises into
\* update_all_todos_cache, which re-raises
InvalidateFails ==
    /\ UNCHANGED api
    /\ pc = "invalidate"
    /\ Fault
    /\ redis_calls' = [redis_calls EXCEPT !.delete = @ + 1]
    /\ IF inv_attempt = inv_max_retries - 1
       THEN AttemptRaised
       ELSE /\ inv_attempt' = inv_attempt + 1
            /\ UNCHANGED <<pc, attempt, cache_data, result, queue, cache_refresh,
                           session>>
    /\ UNCHANGED <<sent, acked, dlq, store, nextId, cache, clock, cur, pre, post,
                   committed>>

\* todos = session.query(Todo).all(); cache_data = {..., utcnow()}
QueryOk ==
    /\ UNCHANGED <<api, apply_hist>>
    /\ pc = "query"
    /\ clock' = clock + 1
    /\ cache_data' = [todos |-> TodosList(store), cached_at |-> clock + 1]
    /\ pc' = "set"
    /\ UNCHANGED <<queue, sent, acked, dlq, store, nextId, cache, cur, attempt,
                   inv_attempt, result, faults, pre, post, committed, cache_refresh>>

\* session.query(Todo).all() raises
QueryFails ==
    /\ UNCHANGED <<api, redis_calls>>
    /\ pc = "query"
    /\ Fault
    /\ AttemptRaised
    /\ UNCHANGED <<sent, acked, dlq, store, nextId, cache, clock, cur, pre, post,
                   committed>>

\* redis_client.set('all_todos', json.dumps(cache_data)) succeeds;
\* update_all_todos_cache returns and process_notification returns True
SetOk ==
    /\ UNCHANGED api
    /\ pc = "set"
    /\ redis_calls' = [redis_calls EXCEPT !.set = @ + 1]
    /\ session' = "closed"
    /\ cache' = [present |-> TRUE, todos |-> cache_data.todos,
                 cached_at |-> cache_data.cached_at]
    /\ cache_refresh' = "done"
    /\ cache_data' = NoData
    /\ pc' = "returned"
    /\ result' = "True"
    /\ UNCHANGED <<queue, sent, acked, dlq, store, nextId, clock, cur, attempt,
                   inv_attempt, faults, pre, post, committed>>

\* redis_client.set raises
SetFails ==
    /\ UNCHANGED api
    /\ pc = "set"
    /\ redis_calls' = [redis_calls EXCEPT !.set = @ + 1]
    /\ Fault
    /\ AttemptRaised
    /\ UNCHANGED <<sent, acked, dlq, store, nextId, cache, clock, cur, pre, post,
                   committed>>

\* ------------------------------------------------- main, after the apply

\* if process_notification(message): -> sqs.delete_message
\* a False or an exception (except Exception: logger.error) leaves the message
AfterProcess ==
    /\ UNCHANGED <<api, apply_hist>>
    /\ pc = "returned"
    /\ pc' = IF result = "True" THEN "delete" ELSE "handled"
    /\ UNCHANGED <<queue, sent, acked, dlq, store, nextId, cache, clock, cur, attempt,
                   inv_attempt, cache_data, result, faults, pre, post, committed,
                   cache_refresh>>

\* sqs.delete_message(...) succeeds
DeleteMessageOk ==
    /\ UNCHANGED <<api, apply_hist>>
    /\ pc = "delete"
    /\ queue' = Without(queue, cur)
    /\ acked' = acked \cup {cur}
    /\ pc' = "handled"
    /\ UNCHANGED <<sent, dlq, store, nextId, cache, clock, cur, attempt, inv_attempt,
                   cache_data, result, faults, pre, post, committed, cache_refresh>>

\* mutant of DeleteMessageFails: the exception of sqs.delete_message is caught
\* by nothing and ends main
DeleteMessageFails_Uncaught ==
    /\ UNCHANGED <<api, apply_hist>>
    /\ pc = "delete"
    /\ Fault
    /\ pc' = "exited"
    /\ UNCHANGED <<queue, sent, acked, dlq, store, nextId, cache, clock, cur, attempt,
                   inv_attempt, cache_data, result, pre, post, committed, cache_refresh>>

\* sqs.delete_message(...) raises: caught by the inner except
DeleteMessageFails ==
    /\ UNCHANGED <<api, apply_hist>>
    /\ pc = "delete"
    /\ Fault
    /\ pc' = "handled"
    /\ UNCHANGED <<queue, sent, acked, dlq, store, nextId, cache, clock, cur, attempt,
                   inv_attempt, cache_data, result, pre, post, committed, cache_refresh>>

\* the for loop over response['Messages'] ends and while True goes round
LoopAgain ==
    /\ UNCHANGED api
    /\ redis_calls' = NoCalls
    /\ session' = "none"
    /\ pc = "handled"
    /\ pc' = "receive"
    /\ cur' = 0
    /\ attempt' = 0
    /\ inv_attempt' = 0
    /\ result' = ""
    /\ pre' = NoPre
    /\ post' = <<>>
    /\ committed' = FALSE
    /\ cache_refresh' = "none"
    /\ UNCHANGED <<queue, sent, acked, dlq, store, nextId, cache, clock, cache_data,
                   faults>>

Next ==
    \/ \E b \in Bodies : Enqueue(b)
    \/ \E m \in 1..MaxSent : Redrive(m)
    \/ \E m \in 1..MaxSent : ReceiveMessage(m)
    \/ ReceiveFails
    \/ Backoff
    \/ ProcessNotification
    \/ InvalidateOk
    \/ InvalidateFails
    \/ QueryOk
    \/ QueryFails
    \/ SetOk
    \/ SetFails
    \/ AfterProcess
    \/ DeleteMessageOk
    \/ DeleteMessageFails
    \/ LoopAgain

Spec == Init /\ [][Next]_vars

\* the statements of main that follow a call that returned or an exception
\* that was caught: the process runs on
WorkerStep ==
    \/ Backoff
    \/ ProcessNotification
    \/ InvalidateOk
    \/ QueryOk
    \/ SetOk
    \/ AfterProcess
    \/ DeleteMessageOk
    \/ LoopAgain

\* one body for each way an apply ends: a raise at the decode, a return of
\* False, an insert and a delete with their cache refresh
LiveBodies ==
    { Malformed,
      Body(TRUE, NoneId, 1, Absent, "invalid_action", Absent, Absent, Absent, Absent, Absent),
      Body(TRUE, NoneId, 1, Absent, "todo_created", "t1", Absent, Absent, Absent, Absent),
      Body(TRUE, NoneId, 1, Absent, "todo_deleted", Absent, Absent, Absent, Absent, Absent) }

NextLive ==
    \/ \E b \in LiveBodies : Enqueue(b)
    \/ \E m \in 1..MaxSent : Redrive(m)
    \/ \E m \in 1..MaxSent : ReceiveMessage(m)
    \/ ReceiveFails
    \/ Backoff
    \/ ProcessNotification
    \/ InvalidateOk
    \/ InvalidateFails
    \/ QueryOk
    \/ QueryFails
    \/ SetOk
    \/ SetFails
    \/ AfterProcess
    \/ DeleteMessageOk
    \/ DeleteMessageFails
    \/ LoopAgain

\* the worker's loop with the process kept running: a step it can take until
\* it is taken is taken in the end
SpecLive == Init /\ [][NextLive]_vars /\ WF_vars(WorkerStep)

\* ------------------------------------- one envelope, every shape, applied
\* process_notification applied to one body of the wide set, over a table the
\* worker filled before: the deliveries of one message, with the failures of
\* the store only.

\* rows as a todo_created leaves them: one with every attribute given, one
\* with the title only
FullRow ==
    Row(TodoData(Body(TRUE, NoneId, 1, Absent, "todo_created",
                      "t0", "d0", "completed", "high", "2030-01-01")))
PlainRow ==
    Row(TodoData(Body(TRUE, NoneId, 2, Absent, "todo_created",
                      "t1", Absent, Absent, Absent, Absent)))
\* the table after no, one and two creates
StartStores == {<<>>, <<FullRow>>, <<FullRow, PlainRow>>}

InitApply ==
    /\ \E b \in WideBodies : queue = (1 :> Msg(b))
    /\ sent = 1
    /\ acked = {}
    /\ dlq = {}
    /\ \E st \in StartStores :
          /\ store = st
          /\ nextId = Len(st) + 1
          /\ clock = Len(st)
          /\ cache = IF st = <<>> THEN NoCache
                     ELSE [present |-> TRUE, todos |-> TodosList(st),
                           cached_at |-> Len(st)]
    /\ pc = "receive"
    /\ cur = 0
    /\ attempt = 0
    /\ inv_attempt = 0
    /\ cache_data = NoData
    /\ result = ""
    /\ faults = 0
    /\ pre = NoPre
    /\ post = <<>>
    /\ committed = FALSE
    /\ cache_refresh = "none"
    /\ epoch = 1
    /\ response = NoResponse
    /\ issued = {}
    /\ redis_calls = NoCalls
    /\ session = "none"

NextApply ==
    \/ \E m \in 1..MaxSent : Redrive(m)
    \/ \E m \in 1..MaxSent : ReceiveMessage(m)
    \/ ProcessNotification
    \/ InvalidateOk
    \/ QueryOk
    \/ SetOk
    \/ AfterProcess
    \/ DeleteMessageOk
    \/ LoopAgain

SpecApply == InitApply /\ [][NextApply]_vars

\* ------------------------------------------------------------ API routes
\* The routes of app.py that accept a change, each from the request to its
\* response, with the worker of Spec consuming what they enqueue.

\* request.get_json(): a dict with the keys given, a non-empty JSON array, or a
\* body that is not JSON
Request(kind, ti, de, st) ==
    [kind |-> kind, title |-> ti, description |-> de, status |-> st]
BadRequests ==
    { Request("list", Absent, Absent, Absent), Request("invalid", Absent, Absent, Absent) }
CreateRequests ==
    { Request("dict", t, d, Absent) : t \in {Absent, "t1"}, d \in Descriptions }
    \cup BadRequests
UpdateRequests ==
    { Request("dict", t, Absent, st) : t \in {Absent, "t1"}, st \in Statuses }
    \cup BadRequests
\* send_notification(todo_id, 'todo_deleted'): todo_data=None
NoTodoData == Request("dict", Absent, Absent, Absent)

\* send_notification's message: todo_id, action, and message.update(todo_data)
Message(todo_id, action, todo_data) ==
    Body(TRUE, NoneId, todo_id, Absent, action, todo_data.title,
         todo_data.description, todo_data.status, Absent, Absent)

\* return jsonify(...), status
Respond(route, status, todo_id, todo_data, enqueued, wrote) ==
    response' = [route |-> route, status |-> status, todo_id |-> todo_id,
                 kind |-> todo_data.kind, title |-> todo_data.title,
                 enqueued |-> enqueued, wrote |-> wrote, source |-> "", todos |-> {}]

\* send_notification(todo_id, action, todo_data), then the route's 202:
\* a todo_data that is no dict returns None before the send, a send that
\* raises is logged and returns None, and the route answers 202 all the same
SendNotification(route, todo_id, action, todo_data, wrote) ==
    IF todo_data.kind = "list"
    THEN /\ Respond(route, 202, todo_id, todo_data, FALSE, wrote)
         /\ UNCHANGED <<queue, sent, faults>>
    ELSE \/ /\ sent' = sent + 1
            /\ queue' = (sent + 1 :> Msg(Message(todo_id, action, todo_data))) @@ queue
            /\ Respond(route, 202, todo_id, todo_data, TRUE, wrote)
            /\ UNCHANGED faults
         \/ /\ Fault
            /\ Respond(route, 202, todo_id, todo_data, FALSE, wrote)
            /\ UNCHANGED <<queue, sent>>

\* POST /todos
CreateTodoRoute(data) ==
    /\ sent < MaxSent
    /\ DOMAIN queue = {}
    /\ IF data.kind = "invalid"
       THEN /\ Respond("POST /todos", 500, NoneId, data, FALSE, FALSE)
            /\ UNCHANGED <<queue, sent, faults>>
            /\ UNCHANGED issued
       ELSE LET temp_id == epoch
            IN  /\ SendNotification("POST /todos", temp_id, "todo_created", data, FALSE)
                /\ issued' = issued \cup {temp_id}
    /\ UNCHANGED <<acked, dlq, store, nextId, cache, clock, pc, cur, attempt, inv_attempt,
                   cache_data, result, pre, post, committed, cache_refresh, epoch,
                   apply_hist>>

\* PUT /todos/<int:todo_id>
UpdateTodoRoute(todo_id, data) ==
    /\ sent < MaxSent
    /\ DOMAIN queue = {}
    /\ IF data.kind = "invalid"
       THEN /\ Respond("PUT /todos/id", 500, NoneId, data, FALSE, FALSE)
            /\ UNCHANGED <<queue, sent, faults>>
       ELSE SendNotification("PUT /todos/id", todo_id, "todo_updated", data, FALSE)
    /\ UNCHANGED <<acked, dlq, store, nextId, cache, clock, pc, cur, attempt, inv_attempt,
                   cache_data, result, pre, post, committed, cache_refresh, epoch,
                   issued, apply_hist>>

\* DELETE /todos/<int:todo_id>: the route deletes the row itself, then enqueues
DeleteTodoRoute(todo_id) ==
    /\ sent < MaxSent
    /\ DOMAIN queue = {}
    /\ \/ /\ Fault
          /\ Respond("DELETE /todos/id", 500, NoneId, NoTodoData, FALSE, FALSE)
          /\ UNCHANGED <<queue, sent, store>>
       \/ /\ store' = IF todo_id \in DOMAIN store THEN Without(store, todo_id)
                       ELSE store
          /\ SendNotification("DELETE /todos/id", todo_id, "todo_deleted", NoTodoData,
                              todo_id \in DOMAIN store)
    /\ UNCHANGED <<acked, dlq, nextId, cache, clock, pc, cur, attempt, inv_attempt,
                   cache_data, result, pre, post, committed, cache_refresh, epoch,
                   issued, apply_hist>>

\* a second of wall-clock time passes
Tick ==
    /\ epoch < MaxTodoId
    /\ epoch' = epoch + 1
    /\ UNCHANGED <<queue, sent, acked, dlq, store, nextId, cache, clock, pc, cur,
                   attempt, inv_attempt, cache_data, result, faults, pre, post,
                   committed, cache_refresh, response, issued, apply_hist>>

NextApi ==
    \/ \E data \in CreateRequests : CreateTodoRoute(data)
    \/ \E todo_id \in TodoIds, data \in UpdateRequests : UpdateTodoRoute(todo_id, data)
    \/ \E todo_id \in TodoIds : DeleteTodoRoute(todo_id)
    \/ Tick
    \/ \E m \in 1..MaxSent : Redrive(m)
    \/ \E m \in 1..MaxSent : ReceiveMessage(m)
    \/ ReceiveFails
    \/ Backoff
    \/ ProcessNotification
    \/ InvalidateOk
    \/ InvalidateFails
    \/ QueryOk
    \/ QueryFails
    \/ SetOk
    \/ SetFails
    \/ AfterProcess
    \/ DeleteMessageOk
    \/ DeleteMessageFails
    \/ LoopAgain

SpecApi == Init /\ [][NextApi]_vars

\* ------------------------------------------------------------- GET /todos

\* Todo.to_dict() of the API's models.py, without created_at and updated_at
to_dict(id, todo) ==
    [id |-> id, title |-> todo.title, description |-> todo.description,
     status |-> todo.status, priority |-> todo.priority,
     due_date |-> IF todo.due_date # NoneS THEN isoformat(todo.due_date) ELSE NoneS]

\* the answer of get_todos when nothing raises: the snapshot's todos when
\* get_cached_todos() returns the entry, else the rows of the table
TodosAnswer ==
    IF cache.present
    THEN [NoResponse EXCEPT !.route = "GET /todos", !.status = 200,
                            !.source = "cache", !.todos = cache.todos]
    ELSE [NoResponse EXCEPT !.route = "GET /todos", !.status = 200,
                            !.source = "database",
                            !.todos = { to_dict(i, store[i]) : i \in DOMAIN store }]

\* mutant of GetTodos: an entry whose todos list is empty is taken for a miss
GetTodos_EmptyIsMiss ==
    /\ \/ /\ Fault
          /\ response' = [NoResponse EXCEPT !.route = "GET /todos", !.status = 500]
       \/ /\ UNCHANGED faults
          /\ response' =
                IF cache.present /\ cache.todos # {}
                THEN [NoResponse EXCEPT !.route = "GET /todos", !.status = 200,
                                        !.source = "cache", !.todos = cache.todos]
                ELSE [NoResponse EXCEPT !.route = "GET /todos", !.status = 200,
                                        !.source = "database",
                                        !.todos = { to_dict(i, store[i]) : i \in DOMAIN store }]
    /\ UNCHANGED <<queue, sent, acked, dlq, store, nextId, cache, clock, pc, cur, attempt,
                   inv_attempt, cache_data, result, pre, post, committed, cache_refresh,
                   epoch, issued, apply_hist>>

\* GET /todos: redis_client.get or the query raising is answered 500
GetTodos ==
    /\ \/ /\ Fault
          /\ response' = [NoResponse EXCEPT !.route = "GET /todos", !.status = 500]
       \/ /\ UNCHANGED faults
          /\ response' = TodosAnswer
    /\ UNCHANGED <<queue, sent, acked, dlq, store, nextId, cache, clock, pc, cur, attempt,
                   inv_attempt, cache_data, result, pre, post, committed, cache_refresh,
                   epoch, issued, apply_hist>>

\* the worker's loop with a client reading the collection at any moment
NextRead ==
    \/ GetTodos
    \/ \E b \in LiveBodies : Enqueue(b)
    \/ \E m \in 1..MaxSent : Redrive(m)
    \/ \E m \in 1..MaxSent : ReceiveMessage(m)
    \/ ReceiveFails
    \/ Backoff
    \/ ProcessNotification
    \/ InvalidateOk
    \/ InvalidateFails
    \/ QueryOk
    \/ QueryFails
    \/ SetOk
    \/ SetFails
    \/ AfterProcess
    \/ DeleteMessageOk
    \/ DeleteMessageFails
    \/ LoopAgain

SpecRead == Init /\ [][NextRead]_vars

\* --------------------------------------------------------------- shutdown

\* the operator's interrupt: KeyboardInterrupt is raised at whatever statement
\* main is executing; it is no Exception, so neither except clause of main
\* catches it, and the except KeyboardInterrupt around main() ends the process
Shutdown ==
    /\ pc # "stopped"
    /\ pc' = "stopped"
    /\ session' = IF session = "open" THEN "closed" ELSE session
    /\ UNCHANGED <<queue, sent, acked, dlq, store, nextId, cache, clock, cur, attempt,
                   inv_attempt, cache_data, result, faults, pre, post, committed,
                   cache_refresh, api, redis_calls>>

\* the worker's loop with an operator who may interrupt it at any moment
NextStop ==
    \/ Shutdown
    \/ \E b \in LiveBodies : Enqueue(b)
    \/ \E m \in 1..MaxSent : Redrive(m)
    \/ \E m \in 1..MaxSent : ReceiveMessage(m)
    \/ ReceiveFails
    \/ Backoff
    \/ ProcessNotification
    \/ InvalidateOk
    \/ InvalidateFails
    \/ QueryOk
    \/ QueryFails
    \/ SetOk
    \/ SetFails
    \/ AfterProcess
    \/ DeleteMessageOk
    \/ DeleteMessageFails
    \/ LoopAgain

SpecStop == Init /\ [][NextStop]_vars

\* ------------------------------------------------------------ properties

\* process_notification has ended for the message in hand
Ended == pc \in {"returned", "delete", "handled"}
\* no call of the store, the cache or the broker failed during this delivery
FaultFree == faults = pre.faults
\* the message in hand was deleted from the queue
Acknowledged == cur \in acked /\ cur \notin DOMAIN queue
\* the message in hand is still on the queue and no delete is under way
NotAcknowledged == cur \in DOMAIN queue /\ cur \notin acked /\ pc # "delete"
CurAction == ActionOf(pre.body)
CurTodoId == TodoIdOf(pre.body)

\* C1: a todo_created envelope applied twice in succession (a delivery, then a
\* redelivery) leaves one record for it in the store: no message's applies
\* insert two rows, and the apply that follows an inserting one inserts
\* nothing and returns True.
C1_CreatedTwiceOneRecord ==
    /\ \A m \in DOMAIN queue : queue[m].ins <= 1
    /\ (Ended /\ CurAction = "todo_created" /\ pre.ins >= 1 /\ FaultFree)
          => (result = "True" /\ store = pre.store)

\* C2: the worker deletes a message only when process_notification returned
\* True in that delivery, and process_notification returns True only after
\* update_all_todos_cache returned normally in that apply, on every branch.
C2_DeleteOnlyAfterRefresh ==
    /\ (pc = "delete" \/ (pc = "handled" /\ cur \in acked)) => result = "True"
    /\ (Ended /\ result = "True") => cache_refresh = "done"

\* C3: after an apply that returns True the 'all_todos' entry is present, its
\* _cached_at is later than before the apply and its todos are the store's.
C3_CacheFreshAfterSuccess ==
    (Ended /\ result = "True")
       => /\ cache.present
          /\ cache.cached_at > pre.cache.cached_at
          /\ cache.todos = TodosList(store)

\* C4: when the cache refresh of an apply fails for good, max_retries attempts
\* of update_all_todos_cache were made, process_notification raised, the
\* store is as the apply committed it and the message is not deleted.
C4_RefreshExhaustedKeepsCommit ==
    (Ended /\ cache_refresh = "failed")
       => /\ result = "raise"
          /\ attempt = max_retries - 1
          /\ store = post
          /\ NotAcknowledged

\* C4 witness: an apply committed a change of the store, each of the
\* max_retries attempts of its refresh dropped the old snapshot, read the
\* store and failed to write the new one, and the message was kept
C4_Witness ==
    /\ pc = "handled" /\ cache_refresh = "failed" /\ committed
    /\ store # pre.store /\ cur \in DOMAIN queue
    /\ pre.cache.present /\ ~cache.present
    /\ clock = pre.clock + max_retries

\* C5: the redelivery of an envelope whose last apply committed and then
\* failed in the cache refresh changes nothing in the store, refreshes the
\* cache again, and returns True only after that refresh succeeded.
C5_RedeliveryOnlyRefreshes ==
    (Ended /\ pre.owed)
       => /\ store = pre.store
          /\ result = "True" => cache_refresh = "done"
          /\ FaultFree => (result = "True" /\ cache_refresh = "done")

\* C6: a todo_updated envelope for a todo_id with no row is a no-op success:
\* the store is unchanged, process_notification returns True and the message
\* is deleted from the queue.
C6_UpdateAbsentNoOpSuccess ==
    (Ended /\ CurAction = "todo_updated" /\ CurTodoId # NoneId
           /\ CurTodoId \notin DOMAIN pre.store /\ FaultFree)
       => /\ store = pre.store
          /\ result = "True"
          /\ pc = "handled" => Acknowledged

\* C7: a todo_deleted envelope for a todo_id with no row is a no-op success:
\* the store is unchanged, process_notification never returns False, it
\* returns True only with the cache rebuilt from the store, and when nothing
\* fails it returns True and the message is deleted from the queue.
C7_DeleteAbsentNoOpSuccess ==
    (Ended /\ CurAction = "todo_deleted" /\ CurTodoId # NoneId
           /\ CurTodoId \notin DOMAIN pre.store)
       => /\ store = pre.store
          /\ result \in {"True", "raise"}
          /\ result = "True" => /\ cache_refresh = "done"
                                /\ cache.present
                                /\ cache.todos = TodosList(store)
          /\ FaultFree => /\ result = "True"
                          /\ pc = "handled" => Acknowledged

\* C7 witness: such a delete was applied and its message deleted
C7_Witness ==
    /\ pc = "handled" /\ CurAction = "todo_deleted" /\ CurTodoId # NoneId
    /\ CurTodoId \notin DOMAIN pre.store /\ Acknowledged /\ cache.present

\* C8: a todo_created envelope with a missing or empty title changes neither
\* the store nor the cache and its message is not deleted.
C8_CreatedWithoutTitleRejected ==
    (Ended /\ CurAction = "todo_created" /\ ~TruthyS(TodoData(pre.body).title))
       => /\ store = pre.store
          /\ cache = pre.cache
          /\ result # "True"
          /\ NotAcknowledged

\* C9: an envelope whose action is none of todo_created, todo_updated,
\* todo_deleted changes neither the store nor the cache and its message is
\* not deleted.
C9_UnknownActionRejected ==
    (Ended /\ pre.body.json /\ CurAction \notin KnownActions)
       => /\ store = pre.store
          /\ cache = pre.cache
          /\ result # "True"
          /\ NotAcknowledged

\* C9 witness: an envelope naming invalid_action was handled, over a store
\* and a cache that hold something
C9_Witness ==
    /\ pc = "handled" /\ pre.body.json /\ CurAction = "invalid_action"
    /\ cur \in DOMAIN queue /\ pre.store # <<>> /\ pre.cache.present

\* C10: for an envelope whose action is missing or unrecognized,
\* process_notification raises instead of returning a value.
C10_UnknownActionRaises ==
    (Ended /\ pre.body.json /\ CurAction \notin KnownActions) => result = "raise"

\* C11: a valid todo_created envelope with todo_id n, applied with success to
\* a store without a record n, adds exactly one record, the record's id is n,
\* and the cache snapshot written by the apply holds a todo with id n.
C11_CreatedRecordHasEnvelopeId ==
    (Ended /\ CurAction = "todo_created" /\ TruthyS(pre.body.title)
           /\ CurTodoId # NoneId /\ CurTodoId \notin DOMAIN pre.store
           /\ result = "True")
       => /\ DOMAIN store = DOMAIN pre.store \cup {CurTodoId}
          /\ \A i \in DOMAIN pre.store : store[i] = pre.store[i]
          /\ \E t \in cache.todos : t.id = CurTodoId

\* C12: the record a todo_created apply inserts has the envelope's title,
\* description and due_date (None for a key the envelope lacks), and the
\* envelope's status and priority, or 'pending' and 'medium' when the
\* envelope lacks them; it is the only record added.
C12_CreatedRecordAttributes ==
    (Ended /\ CurAction = "todo_created" /\ committed)
       => \E i \in DOMAIN store \ DOMAIN pre.store :
             /\ DOMAIN store = DOMAIN pre.store \cup {i}
             /\ store[i].title = pre.body.title
             /\ store[i].description =
                   (IF pre.body.description = Absent THEN NoneS
                    ELSE pre.body.description)
             /\ store[i].due_date =
                   (IF pre.body.due_date = Absent THEN NoneS
                    ELSE DateTimeColumn(pre.body.due_date))
             /\ store[i].status =
                   (IF pre.body.status = Absent THEN "pending" ELSE pre.body.status)
             /\ store[i].priority =
                   (IF pre.body.priority = Absent THEN "medium"
                    ELSE pre.body.priority)

\* C12 witness: a create that gives a description and a due date and neither
\* status nor priority inserted its record and was acknowledged
C12_Witness ==
    /\ pc = "handled" /\ CurAction = "todo_created" /\ committed /\ Acknowledged
    /\ pre.body.description = "d1" /\ pre.body.due_date = "2030-01-01"
    /\ pre.body.status = Absent /\ pre.body.priority = Absent
    /\ pre.store # <<>>

\* C13: a todo_updated apply on an existing record, with no failure of the
\* store, overwrites exactly the attributes the envelope carries and keeps the
\* previous value of every attribute it omits.
C13_UpdateOnlyPresentAttributes ==
    LET body == pre.body
        Merged(row) ==
            [title |-> IF body.title = Absent THEN row.title ELSE body.title,
             description |-> IF body.description = Absent THEN row.description
                             ELSE body.description,
             status |-> IF body.status = Absent THEN row.status ELSE body.status,
             priority |-> IF body.priority = Absent THEN row.priority
                          ELSE body.priority,
             due_date |-> IF body.due_date = Absent THEN row.due_date
                          ELSE DateTimeColumn(body.due_date)]
    IN  (Ended /\ CurAction = "todo_updated" /\ CurTodoId # NoneId
               /\ CurTodoId \in DOMAIN pre.store /\ FaultFree)
           => store = [pre.store EXCEPT ![CurTodoId] = Merged(@)]

\* C14: after a todo_deleted apply for todo_id n that returned True, the
\* store has no record n, every other record is as it was before the apply,
\* and the cache entry is present and its todos has no entry with id n.
C14_DeletedRecordGone ==
    (Ended /\ CurAction = "todo_deleted" /\ CurTodoId # NoneId /\ result = "True")
       => /\ CurTodoId \notin DOMAIN store
          /\ DOMAIN store = DOMAIN pre.store \ {CurTodoId}
          /\ \A i \in DOMAIN store : store[i] = pre.store[i]
          /\ cache.present
          /\ \A t \in cache.todos : t.id # CurTodoId

\* C14 witness: the delete of one of two records was applied and acknowledged
C14_Witness ==
    /\ pc = "handled" /\ CurAction = "todo_deleted" /\ result = "True"
    /\ CurTodoId \in DOMAIN pre.store /\ Cardinality(DOMAIN pre.store) = 2
    /\ Cardinality(DOMAIN store) = 1 /\ Acknowledged

\* C15: for a body that is not valid JSON process_notification raises with no
\* call of the store or the cache made: the store, the cache and the clock are
\* as before, no cache refresh was started, no call failed, and the message
\* is not deleted.
C15_UndecodableRejected ==
    (Ended /\ ~pre.body.json)
       => /\ result = "raise"
          /\ store = pre.store
          /\ cache = pre.cache
          /\ clock = pre.clock
          /\ cache_refresh = "none"
          /\ ~committed
          /\ FaultFree
          /\ NotAcknowledged

\* C15 witness: an undecodable body was handled over a store and a cache
\* that hold something, and its message is still on the queue
C15_Witness ==
    /\ pc = "handled" /\ ~pre.body.json /\ result = "raise"
    /\ pre.store # <<>> /\ pre.cache.present /\ cur \in DOMAIN queue

\* C16: an envelope with a todo_id under neither key makes process_notification
\* raise, for each of the three actions, with the store unchanged and the
\* message not deleted; and an envelope with an integer todo_id under either
\* key, 0 included, is not refused for its todo_id (a create or a delete of
\* it does not raise when no call fails).
C16_TodoIdRequired ==
    /\ (Ended /\ pre.body.json /\ CurAction \in KnownActions
               /\ pre.body.todoId = NoneId /\ pre.body.todo_id = NoneId)
          => (result = "raise" /\ store = pre.store /\ NotAcknowledged)
    /\ (Ended /\ pre.body.json
               /\ (pre.body.todoId # NoneId \/ pre.body.todo_id # NoneId)
               /\ CurAction \in {"todo_created", "todo_deleted"} /\ FaultFree)
          => result # "raise"

\* C17: no route of the API writes the store or the cache: every step that
\* changes the store or the 'all_todos' entry is a step of the worker applying
\* an envelope (process_notification's commit, or the invalidate or the set
\* of update_all_todos_cache).
C17_ProducerNeverWrites ==
    [][(store' # store \/ cache' # cache)
          => (pc \in {"process", "invalidate", "set"} /\ pc' # pc
              /\ response' = response)]_vars

\* C20: a POST /todos whose body is a JSON object with no title is answered
\* 500 and nothing is enqueued for it.
C20_CreateWithoutTitleRefused ==
    (response.route = "POST /todos" /\ response.kind = "dict"
        /\ response.title = Absent)
       => (response.status = 500 /\ ~response.enqueued)

\* C18: an envelope that cannot be applied (a body that does not parse, an
\* action outside the three, no todo_id, a create without a title) is never
\* deleted by the worker, no message is received more than MaxReceiveCount
\* times, and no message moved to the dead-letter queue was deleted.
C18_PoisonNeverDeleted ==
    LET b == pre.body
        poison == \/ ~b.json
                  \/ ActionOf(b) \notin KnownActions
                  \/ TodoIdOf(b) = NoneId
                  \/ (ActionOf(b) = "todo_created" /\ ~TruthyS(b.title))
    IN  /\ (Ended /\ poison) => NotAcknowledged
        /\ \A m \in DOMAIN queue : queue[m].rc <= MaxReceiveCount
        /\ dlq \cap acked = {}

\* C19: whatever fails (the receive, an apply, the delete of a message), the
\* worker's loop comes back to sqs.receive_message again and again.
C19_ReceivesAgain == []<>(pc = "receive")

\* C19 witness: the loop is back at the receive after an apply whose cache
\* refresh failed at every attempt, its message still on the queue
C19_Witness ==
    /\ pc = "receive" /\ faults >= max_retries
    /\ \E m \in DOMAIN queue : queue[m].rc >= 1 /\ queue[m].owed

\* C21: a GET /todos changes nothing on the queue, in the store or in the
\* cache, and when nothing raises it answers 200 with the todos of the
\* 'all_todos' entry if the entry is present (an empty list included) and
\* with the rows of the table otherwise.
C21_ReadFromCacheElseStore ==
    [][(response' # response /\ response'.route = "GET /todos")
          => /\ queue' = queue /\ sent' = sent /\ acked' = acked /\ dlq' = dlq
             /\ store' = store /\ cache' = cache
             /\ faults' = faults => response'.status = 200
             /\ response'.status = 200 =>
                   /\ cache.present =>
                         (response'.source = "cache" /\ response'.todos = cache.todos)
                   /\ ~cache.present =>
                         (response'.source = "database"
                            /\ response'.todos = TodosList(store))]_vars

\* C21 witness: a read was answered with the empty list of a present entry
C21_Witness ==
    /\ response.route = "GET /todos" /\ response.status = 200
    /\ response.source = "cache" /\ response.todos = {}

\* C22: within one apply the refresh makes at most max_retries attempts, and
\* redis_client.delete and redis_client.set are each called at most
\* max_retries times.
C22_AtMostThreeCacheCalls ==
    /\ attempt <= max_retries - 1
    /\ redis_calls.set <= max_retries
    /\ redis_calls.delete <= max_retries

\* C23: when the lookup or the commit of an apply raises, process_notification
\* raises, the store and the cache entry are as before the apply, no redis
\* call was made, the session is closed, and the message stays on the queue.
C23_StoreFailureLeavesAllAsIs ==
    (pc \in {"returned", "handled"} /\ result # "True" /\ cache_refresh = "none"
        /\ ~committed /\ faults > pre.faults)
       => /\ result = "raise"
          /\ store = pre.store
          /\ cache = pre.cache
          /\ redis_calls = NoCalls
          /\ session = "closed"
          /\ NotAcknowledged

\* C23 witness: the store failed in the update of an existing row, with a
\* snapshot in the cache, and the delivery is over with the message kept
C23_Witness ==
    /\ pc = "handled" /\ result = "raise" /\ cache_refresh = "none" /\ ~committed
    /\ faults > pre.faults /\ CurAction = "todo_updated"
    /\ CurTodoId \in DOMAIN pre.store /\ pre.cache.present /\ cur \in DOMAIN queue

\* C24: every apply of a todo_updated or todo_deleted envelope in which
\* nothing fails reports success, and an apply that follows one which already
\* committed the envelope's change leaves the store as it found it and the
\* cache's todos equal to that store.
C24_ReapplyUpdateDeleteSame ==
    (Ended /\ CurAction \in {"todo_updated", "todo_deleted"} /\ CurTodoId # NoneId
           /\ FaultFree)
       => /\ result = "True"
          /\ pre.owed => (store = pre.store /\ cache.todos = TodosList(pre.store))

\* C25: the apply of an envelope gives the store and the outcome that the
\* apply of the same envelope with its id under todo_id and its action under
\* action gives, over the same table, when nothing fails.
C25_AliasNamesEquivalent ==
    LET b == pre.body
        renamed == [b EXCEPT !.todoId = NoneId,
                             !.todo_id = IF b.todoId # NoneId THEN b.todoId ELSE b.todo_id,
                             !.type = Absent,
                             !.action = IF b.type # Absent THEN b.type ELSE b.action]
        nid == nextId - Cardinality(DOMAIN store \ DOMAIN pre.store)
        out == process_notification(renamed, pre.store, nid, "none")
    IN  (Ended /\ b.json /\ FaultFree)
           => /\ store = out.store
              /\ result = (IF out.kind = "refresh" THEN "True" ELSE out.kind)

\* C26: the worker stops only between cycles: at the moment it stops it is
\* waiting to receive, sleeping after a failed receive, or has finished the
\* cycle of the message in hand (acknowledged it or left it on the queue).
C26_StopsOnlyBetweenCycles ==
    [][(pc' = "stopped" /\ pc # "stopped")
          => \/ pc \in {"receive", "backoff", "handled"}
             \/ pc = "returned" /\ result # "True"]_vars

\* C27: a mutation route that answers 202 to a request with a JSON object
\* (or, for DELETE, with no body) has placed the envelope on the queue.
C27_QueuedMeansEnqueued ==
    (response.status = 202 /\ response.kind = "dict"
        /\ response.route \in {"POST /todos", "PUT /todos/id", "DELETE /todos/id"})
       => response.enqueued

\* C28: when no message is on the queue and the worker is waiting to receive,
\* the 'all_todos' entry is absent or its todos are the rows of the table.
C28_QuiescentCacheMatchesStore ==
    (DOMAIN queue = {} /\ pc = "receive" /\ cur = 0)
       => (~cache.present \/ cache.todos = TodosList(store))

\* C29: the todo_id a POST /todos puts in its envelope and returns to its
\* client was returned to no earlier create request.
C29_ProvisionalIdsDistinct ==
    [][(sent' = sent + 1 /\ response'.route = "POST /todos")
          => response'.todo_id \notin issued]_vars

\* C30: in a run without failures, the envelope of a create with a title, or
\* of a delete or an update with a title addressed to the one todo_id the API
\* has returned, whose create the worker has applied (a row was inserted), is
\* not left on the queue by its last delivery (the MaxReceiveCount-th), after
\* which the broker can only dead-letter it.
C30_WellFormedNeverExhausted ==
    LET b == pre.body
        returned == issued = {CurTodoId} /\ nextId > 1
        wellformed ==
            /\ b.json
            /\ \/ CurAction = "todo_created" /\ TruthyS(b.title)
               \/ CurAction = "todo_updated" /\ TruthyS(b.title) /\ returned
               \/ CurAction = "todo_deleted" /\ returned
    IN  (pc = "handled" /\ faults = 0 /\ cur \in DOMAIN queue /\ wellformed)
           => queue[cur].rc < MaxReceiveCount

====
